---- MODULE Spec2Model ----
(***************************************************************************)
(* PicklableFastText (notebooks/pickling-and-fasttext-models.ipynb): the   *)
(* adapter that makes a fasttext model picklable by routing its state      *)
(* through fasttext's own save_model / load_model and a temporary file.    *)
(*                                                                         *)
(* The state is the Python heap (objects and the native handles they hold),*)
(* the part of the filesystem the code touches (temporary directories, the *)
(* model.bin files in them, a few user paths, saved_pipeline.pkl) and, per *)
(* thread, the call stack of the adapter's methods.  Each filesystem or    *)
(* native-library operation of a method is one step, so that threads       *)
(* interleave between them.  The native library and the filesystem may     *)
(* fail at the steps where the code calls them.                            *)
(***************************************************************************)
EXTENDS Integers, Sequences, FiniteSets, TLC

\* ------------------------------------------------------------------ bounds
\* Top-level calls made in one behaviour (all threads together).
MaxCalls == 2

Threads == {"t1", "t2"}
NoThread == "none"

\* Names tempfile.TemporaryDirectory() may draw.
TmpNames == {"tmp1", "tmp2"}
NoDir == "none"

\* What a native handle holds; every query's answer is a function of it.
\* 0 is the state of a handle that was constructed and never trained or
\* loaded, 1 and 2 are trained models.
Weights == {0, 1, 2}
TrainedWeights == {1, 2}

\* Fitted KMeans parameters of a pipeline's second step.
KMeansParams == {1, 2}
Sentences == {"lorem", "ipsum", "dolor"}

\* ------------------------------------------------------------- filesystem
_tmp_filename == "model.bin"

TmpPath(d) == <<d, _tmp_filename>>
NoPath == <<"", "">>
UserPaths == {<<"models", "good.bin">>, <<"models", "corrupt.bin">>,
              <<"models", "missing.bin">>, <<"models", "subdir">>}
Paths == UserPaths \cup {TmpPath(d) : d \in TmpNames}

Absent == [kind |-> "absent", data |-> <<>>]
File(bs) == [kind |-> "file", data |-> bs]
Directory == [kind |-> "dir", data |-> <<>>]

\* ---------------------------------------------------------- native library
\* fasttext's file format is opaque to the adapter.  The model keeps what the
\* adapter relies on: save_model writes a header and the model's state,
\* load_model accepts exactly the files save_model writes.
NativeSaveBytes(w) == <<12, w>>
NativeValid(bs) == Len(bs) = 2 /\ bs[1] = 12 /\ bs[2] \in Weights
NativeLoadWeights(bs) == bs[2]

\* ------------------------------------------------------------------ values
NoArg == [kind |-> "none", path |-> NoPath, data |-> <<>>]
StrArg(p) == [kind |-> "str", path |-> p, data |-> <<>>]
BytesArg(bs) == [kind |-> "bytes", path |-> NoPath, data |-> bs]

\* bytes arguments: a model saved elsewhere, an empty byte string, bytes that
\* are no model file (the bytes of the notebook's own model reach load through
\* serialize and through the pickle stream)
BytesInputs == {NativeSaveBytes(2), <<>>, <<7, 7>>}
LoadArgs == {StrArg(p) : p \in UserPaths} \cup {BytesArg(bs) : bs \in BytesInputs}

NoOutcome == [kind |-> "none", exc |-> "", origin |-> "", about |-> NoPath,
              obj |-> 0, data |-> <<>>, callable |-> "", args |-> <<>>, kmeans |-> 0]
ValNone == [NoOutcome EXCEPT !.kind = "value"]
ValObj(o) == [NoOutcome EXCEPT !.kind = "value", !.obj = o]
ValBytes(bs) == [NoOutcome EXCEPT !.kind = "value", !.data = bs]
ValReduce(fn, bs) == [NoOutcome EXCEPT !.kind = "value", !.callable = fn, !.args = <<bs>>]
ValPipeline(o, k) == [NoOutcome EXCEPT !.kind = "value", !.obj = o, !.kmeans = k]
Exc(name, origin, p) == [NoOutcome EXCEPT !.kind = "exc", !.exc = name,
                                          !.origin = origin, !.about = p]

Frame(fn, pc, arg, self, k) == [fn |-> fn, pc |-> pc, arg |-> arg, self |-> self,
                                d |-> NoDir, k |-> k]

NoStream == [state |-> "absent", kmeans |-> 0, callable |-> "", args |-> <<>>,
             orig |-> [model |-> 0, k |-> 0]]

VARIABLES
    objs,       \* Python objects: [cls, dict, adopted]; dict.f is a native handle
    natives,    \* native handles: the weights each holds
    dirs,       \* the temporary directories that exist
    files,      \* Paths -> what is at the path
    pkl,        \* saved_pipeline.pkl: the pickle stream, and the pipeline it was
                \* written from (orig)
    stack,      \* per thread: the frames of the methods it is in
    ret,        \* per thread: what the last finished frame returned or raised
    call,       \* per thread: the top-level call it made last
    calls,      \* top-level calls made so far
    log,        \* per thread: native and filesystem operations of its top-level call
    faulted,    \* per thread: the environment failed during its top-level call
    nativeErr,  \* per thread: the first error a native routine raised in the call
    owner       \* TmpNames -> the thread whose call created the directory

vars == <<objs, natives, dirs, files, pkl, stack, ret, call, calls, log, faulted,
          nativeErr, owner>>

\* ----------------------------------------------------------------- helpers
Top(t) == stack[t][Len(stack[t])]
At(t, fn, pc) == stack[t] # <<>> /\ Top(t).fn = fn /\ Top(t).pc = pc
SetTop(t, f) == [stack EXCEPT ![t] = [@ EXCEPT ![Len(@)] = f]]
Pop(t) == [stack EXCEPT ![t] = SubSeq(@, 1, Len(@) - 1)]
Push(t, f, g) == [stack EXCEPT ![t] = Append([@ EXCEPT ![Len(@)] = f], g)]
Logged(t, evs) == [log EXCEPT ![t] = @ \o evs]

\* pathlib.Path(p).exists(): true of a file and of a directory.
Exists(p) == files[p].kind # "absent"

\* The answer of model.get_sentence_vector(s): a function of the native
\* handle's weights and of the sentence, distinct for distinct weights.
get_sentence_vector(o, s) == <<natives[objs[o].dict.f], s>>
\* Pipeline.transform([s]): KMeans.transform of FastTextTransformer.transform.
transform(o, k, s) == <<k, get_sentence_vector(o, s)>>

IsAdapter(o) == objs[o].cls = "PicklableFastText"

\* ------------------------------------------------------- PicklableFastText
\* (changed: cls() instead of cls.__new__(cls), and no __dict__.update: the
\* new object holds a native handle of its own, never trained)
from_pretrained_init(os, ns, model) ==
    [objs |-> Append(os, [cls |-> "PicklableFastText", dict |-> [f |-> Len(ns) + 1],
                          adopted |-> model]),
     natives |-> Append(ns, 0)]

\* from_pretrained: cls.__new__(cls), then self.__dict__.update(model.__dict__).
\* The result is the heap with the new object appended; no native handle is
\* constructed.
from_pretrained(os, ns, model) ==
    [objs |-> Append(os, [cls |-> "PicklableFastText", dict |-> os[model].dict,
                          adopted |-> model]),
     natives |-> ns]

\* -------------------------------------------------------------------- Init
\* The notebook after its cell 6d34d97d: train_model has trained
\* fasttext_model, from_pretrained has adopted it into the adapter the
\* picklable pipeline holds; models/good.bin is a model saved earlier by some
\* other training run.  No temporary directory, no saved pipeline yet.
Init ==
    /\ LET h == from_pretrained(<<[cls |-> "_FastText", dict |-> [f |-> 1], adopted |-> 0]>>,
                                <<1>>, 1) IN
           /\ natives = h.natives
           /\ objs = h.objs
    /\ dirs = {}
    /\ files = [p \in Paths |->
                      CASE p = <<"models", "good.bin">> -> File(NativeSaveBytes(2))
                        [] p = <<"models", "corrupt.bin">> -> File(<<7, 7>>)
                        [] p = <<"models", "subdir">> -> Directory
                        [] OTHER -> Absent]
    /\ pkl = NoStream
    /\ stack = [t \in Threads |-> <<>>]
    /\ ret = [t \in Threads |-> NoOutcome]
    /\ call = [t \in Threads |-> [fn |-> "none", arg |-> NoArg, self |-> 0, k |-> 0, src |-> 0]]
    /\ calls = 0
    /\ log = [t \in Threads |-> <<>>]
    /\ faulted = [t \in Threads |-> FALSE]
    /\ nativeErr = [t \in Threads |-> NoOutcome]
    /\ owner = [d \in TmpNames |-> NoThread]

\* A thread with no call in progress makes a top-level call.
Begin(t, fn, pc, arg, self, k, src) ==
    /\ stack[t] = <<>>
    /\ calls < MaxCalls
    /\ calls' = calls + 1
    /\ stack' = [stack EXCEPT ![t] = <<Frame(fn, pc, arg, self, k)>>]
    /\ call' = [call EXCEPT ![t] = [fn |-> fn, arg |-> arg, self |-> self, k |-> k, src |-> src]]
    /\ ret' = [ret EXCEPT ![t] = NoOutcome]
    /\ log' = [log EXCEPT ![t] = <<>>]
    /\ faulted' = [faulted EXCEPT ![t] = FALSE]
    /\ nativeErr' = [nativeErr EXCEPT ![t] = NoOutcome]
    /\ UNCHANGED <<objs, natives, dirs, files, pkl, owner>>

\* The frame on top of t's stack ends with outcome r.
Finish(t, r) ==
    /\ stack' = Pop(t)
    /\ ret' = [ret EXCEPT ![t] = r]

\* ------------------------------------------------ tempfile.TemporaryDirectory
\* (changed: a name is drawn without looking at what exists)
MkdtempAnyName(ds) == TmpNames

\* mkdtemp creates a directory under a name that does not exist yet.
MkdtempNames(ds) == TmpNames \ ds

\* __enter__ of `with tempfile.TemporaryDirectory() as d`.
EnterTmpDir(t, nextpc) ==
    \E d \in MkdtempNames(dirs) :
        /\ dirs' = dirs \cup {d}
        /\ owner' = [owner EXCEPT ![d] = t]
        /\ stack' = SetTop(t, [Top(t) EXCEPT !.d = d, !.pc = nextpc])
        /\ log' = Logged(t, <<"mkdtemp">>)
        /\ UNCHANGED <<objs, natives, files, pkl, ret, call, calls, faulted, nativeErr>>

\* (changed: the directory is removed only when the block ends normally)
ExitTmpDirOnSuccessOnly(t) ==
    LET d == Top(t).d
        ok == ret[t].kind = "value" IN
    /\ dirs' = IF ok THEN dirs \ {d} ELSE dirs
    /\ files' = IF ok THEN [files EXCEPT ![TmpPath(d)] = Absent] ELSE files
    /\ owner' = IF ok THEN [owner EXCEPT ![d] = NoThread] ELSE owner
    /\ log' = IF ok THEN Logged(t, <<"rmtree">>) ELSE log
    /\ Finish(t, ret[t])
    /\ UNCHANGED <<objs, natives, pkl, call, calls, faulted, nativeErr>>

\* (changed: __exit__ suppresses the exception of the block)
ExitTmpDirSuppress(t) ==
    LET d == Top(t).d IN
    /\ dirs' = dirs \ {d}
    /\ files' = [files EXCEPT ![TmpPath(d)] = Absent]
    /\ owner' = [owner EXCEPT ![d] = NoThread]
    /\ log' = Logged(t, <<"rmtree">>)
    /\ Finish(t, IF ret[t].kind = "exc" THEN ValNone ELSE ret[t])
    /\ UNCHANGED <<objs, natives, pkl, call, calls, faulted, nativeErr>>

\* __exit__ of the with block: the directory and the file in it are removed,
\* then the value or the exception of the block goes on to the caller.
ExitTmpDir(t) ==
    LET d == Top(t).d IN
    /\ dirs' = dirs \ {d}
    /\ files' = [files EXCEPT ![TmpPath(d)] = Absent]
    /\ owner' = [owner EXCEPT ![d] = NoThread]
    /\ log' = Logged(t, <<"rmtree">>)
    /\ Finish(t, ret[t])
    /\ UNCHANGED <<objs, natives, pkl, call, calls, faulted, nativeErr>>

AdoptEvents(ns, h) == IF Len(h.natives) > Len(ns) THEN <<"native_new", "adopt">> ELSE <<"adopt">>

CallFromPretrained(t) ==
    \E m \in 1..Len(objs) : Begin(t, "from_pretrained", "run", NoArg, m, 0, 0)

FromPretrainedRun(t) ==
    /\ At(t, "from_pretrained", "run")
    /\ LET h == from_pretrained(objs, natives, Top(t).self) IN
        /\ objs' = h.objs
        /\ natives' = h.natives
        /\ log' = Logged(t, AdoptEvents(natives, h))
        /\ Finish(t, ValObj(Len(h.objs)))
    /\ UNCHANGED <<dirs, files, pkl, call, calls, faulted, nativeErr, owner>>

\* load, called by the notebook with a path or with bytes.
CallLoad(t) ==
    \E a \in LoadArgs : Begin(t, "load", "check", a, 0, 0, 0)

\* load, called with the bytes the thread's serialize call has just returned.
CallLoadSerialized(t) ==
    /\ call[t].fn = "serialize"
    /\ ret[t].kind = "value"
    /\ Begin(t, "load", "check", BytesArg(ret[t].data), 0, 0, call[t].self)

\* (changed: the path is not checked for existence)
LoadBranchNoExists(a) ==
    IF a.kind = "str" THEN "native"
    ELSE IF a.kind = "bytes" THEN "mkdtemp"
    ELSE "raise"

\* (changed: the bytes branch is missing)
LoadBranchNoBytes(a) ==
    IF a.kind = "str" /\ Exists(a.path) THEN "native" ELSE "raise"

\* The branch load takes: "native" (an existing str path), "mkdtemp" (bytes)
\* or "raise" (FileNotFoundError).
LoadBranch(a) ==
    IF a.kind = "str" /\ Exists(a.path) THEN "native"
    ELSE IF a.kind = "bytes" THEN "mkdtemp"
    ELSE "raise"

LoadCheck(t) ==
    /\ At(t, "load", "check")
    /\ LET a == Top(t).arg
           b == LoadBranch(a) IN
        IF b = "raise"
        THEN /\ Finish(t, Exc("FileNotFoundError", "local", a.path))
        ELSE /\ stack' = SetTop(t, [Top(t) EXCEPT !.pc = b])
             /\ UNCHANGED ret
    /\ UNCHANGED <<objs, natives, dirs, files, pkl, call, calls, log, faulted, nativeErr, owner>>

\* fasttext.load_model(saved_model), then cls.from_pretrained of its result.
\* load_model constructs a native handle and reads the file into it; it
\* raises ValueError when the file cannot be opened or is no model file.
LoadNative(t) ==
    /\ At(t, "load", "native")
    /\ \E fault \in BOOLEAN :
        LET p == Top(t).arg.path
            f == files[p] IN
        IF fault \/ f.kind # "file" \/ ~NativeValid(f.data)
        THEN /\ Finish(t, Exc("ValueError", "native", p))
             /\ nativeErr' = [nativeErr EXCEPT ![t] =
                                IF @.kind = "none" THEN Exc("ValueError", "native", p) ELSE @]
             /\ faulted' = [faulted EXCEPT ![t] = @ \/ fault]
             /\ log' = Logged(t, <<"native_load">>)
             /\ UNCHANGED <<objs, natives>>
        ELSE LET ns == Append(natives, NativeLoadWeights(f.data))
                 os == Append(objs, [cls |-> "_FastText", dict |-> [f |-> Len(ns)],
                                     adopted |-> 0])
                 h == from_pretrained(os, ns, Len(os)) IN
             /\ objs' = h.objs
             /\ natives' = h.natives
             /\ log' = Logged(t, <<"native_load">> \o AdoptEvents(ns, h))
             /\ Finish(t, ValObj(Len(h.objs)))
             /\ UNCHANGED <<faulted, nativeErr>>
    /\ UNCHANGED <<dirs, files, pkl, call, calls, owner>>

LoadMkdtemp(t) ==
    /\ At(t, "load", "mkdtemp")
    /\ EnterTmpDir(t, "write")

\* model_path.write_bytes(saved_model)
LoadWrite(t) ==
    /\ At(t, "load", "write")
    /\ \E fault \in BOOLEAN :
        LET p == TmpPath(Top(t).d) IN
        IF fault \/ Top(t).d \notin dirs
        THEN /\ ret' = [ret EXCEPT ![t] = Exc("OSError", "fs", p)]
             /\ stack' = SetTop(t, [Top(t) EXCEPT !.pc = "exit"])
             /\ faulted' = [faulted EXCEPT ![t] = @ \/ fault]
             /\ UNCHANGED <<files, log>>
        ELSE /\ files' = [files EXCEPT ![p] = File(Top(t).arg.data)]
             /\ stack' = SetTop(t, [Top(t) EXCEPT !.pc = "recurse"])
             /\ log' = Logged(t, <<"write">>)
             /\ UNCHANGED <<ret, faulted>>
    /\ UNCHANGED <<objs, natives, dirs, pkl, call, calls, nativeErr, owner>>

\* (changed: the return statement is outside the with block, so the
\* directory is removed before the nested call)
LoadRecurseOutsideWith(t) ==
    /\ At(t, "load", "recurse")
    /\ dirs' = dirs \ {Top(t).d}
    /\ files' = [files EXCEPT ![TmpPath(Top(t).d)] = Absent]
    /\ owner' = [owner EXCEPT ![Top(t).d] = NoThread]
    /\ log' = Logged(t, <<"rmtree">>)
    /\ stack' = Push(t, [Top(t) EXCEPT !.pc = "exit"],
                     Frame("load", "check", StrArg(TmpPath(Top(t).d)), 0, 0))
    /\ UNCHANGED <<objs, natives, pkl, ret, call, calls, faulted, nativeErr>>

\* (changed: the nested call is given the bytes again, not the path)
LoadRecurseWithBytes(t) ==
    /\ At(t, "load", "recurse")
    /\ stack' = Push(t, [Top(t) EXCEPT !.pc = "exit"],
                     Frame("load", "check", Top(t).arg, 0, 0))
    /\ UNCHANGED <<objs, natives, dirs, files, pkl, ret, call, calls, log, faulted,
                   nativeErr, owner>>

\* return cls.load(str(model_path)): the nested call runs inside the with block.
LoadRecurse(t) ==
    /\ At(t, "load", "recurse")
    /\ stack' = Push(t, [Top(t) EXCEPT !.pc = "exit"],
                     Frame("load", "check", StrArg(TmpPath(Top(t).d)), 0, 0))
    /\ UNCHANGED <<objs, natives, dirs, files, pkl, ret, call, calls, log, faulted,
                   nativeErr, owner>>

LoadExit(t) ==
    /\ At(t, "load", "exit")
    /\ ExitTmpDir(t)

\* serialize, called on an adapter.
CallSerialize(t) ==
    \E o \in 1..Len(objs) :
        /\ IsAdapter(o)
        /\ Begin(t, "serialize", "mkdtemp", NoArg, o, 0, 0)

SerializeMkdtemp(t) ==
    /\ At(t, "serialize", "mkdtemp")
    /\ EnterTmpDir(t, "save")

\* self.save_model(str(model_path)): the native save routine writes the
\* handle's state to the path, or raises ValueError when it cannot open it.
SerializeSave(t) ==
    /\ At(t, "serialize", "save")
    /\ \E fault \in BOOLEAN :
        LET p == TmpPath(Top(t).d) IN
        IF fault \/ Top(t).d \notin dirs
        THEN /\ ret' = [ret EXCEPT ![t] = Exc("ValueError", "native", p)]
             /\ nativeErr' = [nativeErr EXCEPT ![t] =
                                IF @.kind = "none" THEN Exc("ValueError", "native", p) ELSE @]
             /\ stack' = SetTop(t, [Top(t) EXCEPT !.pc = "exit"])
             /\ faulted' = [faulted EXCEPT ![t] = @ \/ fault]
             /\ UNCHANGED files
        ELSE /\ files' = [files EXCEPT ![p] =
                            File(NativeSaveBytes(natives[objs[Top(t).self].dict.f]))]
             /\ stack' = SetTop(t, [Top(t) EXCEPT !.pc = "read"])
             /\ UNCHANGED <<ret, faulted, nativeErr>>
    /\ log' = Logged(t, <<"native_save">>)
    /\ UNCHANGED <<objs, natives, dirs, pkl, call, calls, owner>>

\* (changed: the read is outside the with block, after the directory is gone)
SerializeReadOutsideWith(t) ==
    /\ At(t, "serialize", "read")
    /\ dirs' = dirs \ {Top(t).d}
    /\ files' = [files EXCEPT ![TmpPath(Top(t).d)] = Absent]
    /\ owner' = [owner EXCEPT ![Top(t).d] = NoThread]
    /\ log' = Logged(t, <<"rmtree">>)
    /\ ret' = [ret EXCEPT ![t] = Exc("OSError", "fs", TmpPath(Top(t).d))]
    /\ stack' = SetTop(t, [Top(t) EXCEPT !.pc = "exit"])
    /\ UNCHANGED <<objs, natives, pkl, call, calls, faulted, nativeErr>>

\* return model_path.read_bytes()
SerializeRead(t) ==
    /\ At(t, "serialize", "read")
    /\ \E fault \in BOOLEAN :
        LET p == TmpPath(Top(t).d) IN
        IF fault \/ files[p].kind # "file"
        THEN /\ ret' = [ret EXCEPT ![t] = Exc("OSError", "fs", p)]
             /\ faulted' = [faulted EXCEPT ![t] = @ \/ fault]
             /\ UNCHANGED log
        ELSE /\ ret' = [ret EXCEPT ![t] = ValBytes(files[p].data)]
             /\ log' = Logged(t, <<"read">>)
             /\ UNCHANGED faulted
    /\ stack' = SetTop(t, [Top(t) EXCEPT !.pc = "exit"])
    /\ UNCHANGED <<objs, natives, dirs, files, pkl, call, calls, nativeErr, owner>>

SerializeExit(t) ==
    /\ At(t, "serialize", "exit")
    /\ ExitTmpDir(t)

\* __reduce__, called on an adapter: return self.load, (self.serialize(),)
CallReduce(t) ==
    \E o \in 1..Len(objs) :
        /\ IsAdapter(o)
        /\ Begin(t, "__reduce__", "serialize", NoArg, o, 0, 0)

ReduceSerialize(t) ==
    /\ At(t, "__reduce__", "serialize")
    /\ stack' = Push(t, [Top(t) EXCEPT !.pc = "return"],
                     Frame("serialize", "mkdtemp", NoArg, Top(t).self, 0))
    /\ UNCHANGED <<objs, natives, dirs, files, pkl, ret, call, calls, log, faulted,
                   nativeErr, owner>>

\* (changed: the constructor named is from_pretrained)
ReduceValueFromPretrained(bs) == ValReduce("from_pretrained", bs)

\* (changed: the argument tuple is empty)
ReduceValueNoArgs(bs) == [ValNone EXCEPT !.callable = "load"]

\* What __reduce__ returns once serialize has returned bs.
ReduceValue(bs) == ValReduce("load", bs)

ReduceReturn(t) ==
    /\ At(t, "__reduce__", "return")
    /\ Finish(t, IF ret[t].kind = "value" THEN ReduceValue(ret[t].data) ELSE ret[t])
    /\ UNCHANGED <<objs, natives, dirs, files, pkl, call, calls, log, faulted,
                   nativeErr, owner>>

\* ------------------------------------------------ save_pipeline, load_pipeline
\* save_pipeline(make_pipeline(FastTextTransformer(model), KMeans)): the
\* pipeline holds model o and KMeans parameters k.
CallSavePipeline(t) ==
    \E o \in 1..Len(objs), k \in KMeansParams :
        Begin(t, "save_pipeline", "open", NoArg, o, k, 0)

\* open(filename, "wb") truncates the file.
SavePipelineOpen(t) ==
    /\ At(t, "save_pipeline", "open")
    /\ pkl' = [NoStream EXCEPT !.state = "empty"]
    /\ stack' = SetTop(t, [Top(t) EXCEPT !.pc = "dump"])
    /\ UNCHANGED <<objs, natives, dirs, files, ret, call, calls, log, faulted,
                   nativeErr, owner>>

\* pickle.dump reaches the model: an adapter is asked for its __reduce__;
\* a plain fasttext model has none that works (TypeError: cannot pickle
\* 'fasttext_pybind.fasttext' object).
SavePipelineDump(t) ==
    /\ At(t, "save_pipeline", "dump")
    /\ IF IsAdapter(Top(t).self)
       THEN /\ stack' = Push(t, [Top(t) EXCEPT !.pc = "write"],
                             Frame("__reduce__", "serialize", NoArg, Top(t).self, 0))
            /\ UNCHANGED ret
       ELSE Finish(t, Exc("TypeError", "pickle", NoPath))
    /\ UNCHANGED <<objs, natives, dirs, files, pkl, call, calls, log, faulted,
                   nativeErr, owner>>

\* pickle.dump writes the reduction and the KMeans step; the file is closed.
SavePipelineWrite(t) ==
    /\ At(t, "save_pipeline", "write")
    /\ IF ret[t].kind = "value"
       THEN /\ pkl' = [state |-> "full", kmeans |-> Top(t).k,
                       callable |-> ret[t].callable, args |-> ret[t].args,
                       orig |-> [model |-> Top(t).self, k |-> Top(t).k]]
            /\ Finish(t, ValNone)
       ELSE /\ Finish(t, ret[t])
            /\ UNCHANGED pkl
    /\ UNCHANGED <<objs, natives, dirs, files, call, calls, log, faulted,
                   nativeErr, owner>>

CallLoadPipeline(t) ==
    Begin(t, "load_pipeline", "open", NoArg, 0, 0, 0)

\* open(filename, "rb"), then pickle.load: it calls the callable of the
\* model's reduction with its arguments.  call[t] remembers the pipeline the
\* stream was written from.
LoadPipelineOpen(t) ==
    /\ At(t, "load_pipeline", "open")
    /\ IF pkl.state # "full"
       THEN /\ Finish(t, IF pkl.state = "absent"
                         THEN Exc("FileNotFoundError", "open", NoPath)
                         ELSE Exc("EOFError", "pickle", NoPath))
            /\ UNCHANGED call
       ELSE /\ call' = [call EXCEPT ![t].self = pkl.orig.model, ![t].k = pkl.orig.k]
            /\ IF pkl.callable = "load" /\ Len(pkl.args) = 1
               THEN /\ stack' = Push(t, [Top(t) EXCEPT !.pc = "build", !.k = pkl.kmeans],
                                     Frame("load", "check", BytesArg(pkl.args[1]), 0, 0))
                    /\ UNCHANGED ret
               ELSE Finish(t, Exc("TypeError", "pickle", NoPath))
    /\ UNCHANGED <<objs, natives, dirs, files, pkl, calls, log, faulted,
                   nativeErr, owner>>

\* pickle.load puts the object load returned into the rebuilt pipeline.
LoadPipelineBuild(t) ==
    /\ At(t, "load_pipeline", "build")
    /\ Finish(t, IF ret[t].kind = "value" THEN ValPipeline(ret[t].obj, Top(t).k) ELSE ret[t])
    /\ UNCHANGED <<objs, natives, dirs, files, pkl, call, calls, log, faulted,
                   nativeErr, owner>>

Next ==
    \E t \in Threads :
        \/ CallFromPretrained(t)
        \/ FromPretrainedRun(t)
        \/ CallLoad(t)
        \/ CallLoadSerialized(t)
        \/ LoadCheck(t)
        \/ LoadNative(t)
        \/ LoadMkdtemp(t)
        \/ LoadWrite(t)
        \/ LoadRecurse(t)
        \/ LoadExit(t)
        \/ CallSerialize(t)
        \/ SerializeMkdtemp(t)
        \/ SerializeSave(t)
        \/ SerializeRead(t)
        \/ SerializeExit(t)
        \/ CallReduce(t)
        \/ ReduceSerialize(t)
        \/ ReduceReturn(t)
        \/ CallSavePipeline(t)
        \/ SavePipelineOpen(t)
        \/ SavePipelineDump(t)
        \/ SavePipelineWrite(t)
        \/ CallLoadPipeline(t)
        \/ LoadPipelineOpen(t)
        \/ LoadPipelineBuild(t)

Spec == Init /\ [][Next]_vars

\* ------------------------------------------------------------- properties
\* t's last top-level call has exited.
Done(t) == stack[t] = <<>> /\ call[t].fn # "none"
WeightsOf(o) == natives[objs[o].dict.f]
SameAnswers(o1, o2) ==
    \A s \in Sentences : get_sentence_vector(o1, s) = get_sentence_vector(o2, s)
Count(evs, e) == Cardinality({i \in 1..Len(evs) : evs[i] = e})
HoldsDir(t) == {stack[t][i].d : i \in 1..Len(stack[t])} \ {NoDir}

\* C1: round trip.  serialize on an adapter returns bytes unless the
\* environment fails, and load of the bytes serialize returned for adapter a
\* = from_pretrained(h) returns, unless the environment fails, an adapter
\* that answers every query as h does.
C1_RoundTrip ==
    \A t \in Threads :
        (Done(t) /\ ~faulted[t]) =>
            /\ call[t].fn = "serialize" => ret[t].kind = "value"
            /\ (call[t].fn = "load" /\ call[t].src # 0) =>
                  /\ ret[t].kind = "value"
                  /\ ret[t].obj \in 1..Len(objs)
                  /\ IsAdapter(ret[t].obj)
                  /\ ret[t].obj # call[t].src
                  /\ SameAnswers(ret[t].obj, objs[call[t].src].adopted)

C1_Witness ==
    \E t \in Threads :
        /\ Done(t) /\ call[t].fn = "load" /\ call[t].src # 0
        /\ ret[t].kind = "value"
        /\ objs[call[t].src].adopted = 1
        /\ WeightsOf(ret[t].obj) = 1

\* C2: protocol integration.  load_pipeline of a stream that save_pipeline
\* wrote from a pipeline holding an adapter returns, unless the environment
\* fails, a pipeline whose transform output equals the original pipeline's
\* on every sentence.
C2_ProtocolIntegration ==
    \A t \in Threads :
        (Done(t) /\ call[t].fn = "load_pipeline" /\ call[t].self # 0 /\ ~faulted[t]) =>
            /\ ret[t].kind = "value"
            /\ ret[t].obj \in 1..Len(objs)
            /\ IsAdapter(ret[t].obj)
            /\ \A s \in Sentences :
                  transform(ret[t].obj, ret[t].kmeans, s) = transform(call[t].self, call[t].k, s)

C2_Witness ==
    \E t \in Threads :
        /\ Done(t) /\ call[t].fn = "load_pipeline" /\ call[t].self # 0
        /\ ret[t].kind = "value"
        /\ ret[t].obj # call[t].self
        /\ ret[t].kmeans = 2

\* C3: temporary-resource cleanup.  A temporary directory exists only while
\* the call that created it is still inside its with block, a model.bin file
\* only inside an existing directory: once a call has exited, normally or by
\* an error, nothing it created is left.
C3_TmpCleanup ==
    /\ \A d \in TmpNames :
          /\ d \in dirs => (owner[d] \in Threads /\ d \in HoldsDir(owner[d]))
          /\ d \notin dirs => files[TmpPath(d)] = Absent
    /\ \A t \in Threads : stack[t] = <<>> => \A d \in dirs : owner[d] # t

C3_Witness ==
    \E t \in Threads :
        /\ Done(t) /\ ret[t].kind = "exc" /\ ret[t].origin \in {"native", "fs"}
        /\ Count(log[t], "mkdtemp") = 1
        /\ dirs = {}

\* C4: NotFound.  load of a str path at which nothing exists raises
\* FileNotFoundError(path), and the call never calls the native load routine
\* and never writes to the filesystem.
C4_NotFound ==
    \A t \in Threads :
        (call[t].fn = "load" /\ call[t].arg.kind = "str" /\ ~Exists(call[t].arg.path)) =>
            /\ log[t] = <<>>
            /\ Done(t) => ret[t] = Exc("FileNotFoundError", "local", call[t].arg.path)

C4_Witness ==
    \E t \in Threads :
        /\ Done(t) /\ call[t].fn = "load"
        /\ call[t].arg = StrArg(<<"models", "missing.bin">>)
        /\ ret[t].exc = "FileNotFoundError"

\* C5: reduction hook.  What __reduce__ returns is the pair of load and a
\* one-element tuple holding the bytes the native save routine writes for
\* the adapter's own handle; it returns unless the environment fails.
C5_ReductionHook ==
    \A t \in Threads :
        (Done(t) /\ call[t].fn = "__reduce__") =>
            /\ ~faulted[t] => ret[t].kind = "value"
            /\ ret[t].kind = "value" =>
                  /\ ret[t].callable = "load"
                  /\ Len(ret[t].args) = 1
                  /\ ret[t].args[1] = NativeSaveBytes(WeightsOf(call[t].self))
                  /\ ret[t].obj = 0 /\ ret[t].data = <<>>

C5_Witness ==
    \E t \in Threads :
        /\ Done(t) /\ call[t].fn = "__reduce__"
        /\ ret[t].kind = "value"
        /\ ret[t].args = <<NativeSaveBytes(1)>>

\* C6: adoption.  from_pretrained returns a new object of the adapter class
\* whose __dict__ is the model's, so it answers every query as the model
\* does; the call constructs no native handle, calls no native routine and
\* does not touch the filesystem.
C6_Adoption ==
    \A t \in Threads :
        (Done(t) /\ call[t].fn = "from_pretrained") =>
            /\ ret[t].kind = "value"
            /\ ret[t].obj \in 1..Len(objs)
            /\ ret[t].obj # call[t].self
            /\ IsAdapter(ret[t].obj)
            /\ objs[ret[t].obj].dict = objs[call[t].self].dict
            /\ SameAnswers(ret[t].obj, call[t].self)
            /\ log[t] = <<"adopt">>

C6_Witness ==
    \E t \in Threads :
        /\ Done(t) /\ call[t].fn = "from_pretrained"
        /\ ~IsAdapter(call[t].self)
        /\ ret[t].kind = "value"
        /\ WeightsOf(ret[t].obj) = 1

\* What a serialize or load call returns when nothing else runs and the
\* environment does not fail: a function of its arguments alone.
AloneOutcomeOk(t) ==
    LET a == call[t].arg
        r == ret[t] IN
    CASE call[t].fn = "serialize" ->
            r = ValBytes(NativeSaveBytes(WeightsOf(call[t].self)))
      [] call[t].fn = "load" /\ a.kind = "bytes" /\ NativeValid(a.data) ->
            r.kind = "value" /\ IsAdapter(r.obj) /\ WeightsOf(r.obj) = NativeLoadWeights(a.data)
      [] call[t].fn = "load" /\ a.kind = "bytes" /\ ~NativeValid(a.data) ->
            r.kind = "exc" /\ r.exc = "ValueError" /\ r.origin = "native"
      [] call[t].fn = "load" /\ a.kind = "str" /\ files[a.path].kind = "file"
                             /\ NativeValid(files[a.path].data) ->
            r.kind = "value" /\ IsAdapter(r.obj)
                             /\ WeightsOf(r.obj) = NativeLoadWeights(files[a.path].data)
      [] call[t].fn = "load" /\ a.kind = "str" /\ files[a.path].kind = "absent" ->
            r = Exc("FileNotFoundError", "local", a.path)
      [] OTHER ->
            r = Exc("ValueError", "native", a.path)

\* C7: concurrent non-interference.  Calls in progress at the same time hold
\* different temporary directories, each directory a call holds exists and
\* was created by that call, and every serialize or load call returns what
\* it returns when run alone.
C7_NonInterference ==
    /\ \A t \in Threads :
          /\ \A d \in HoldsDir(t) : d \in dirs /\ owner[d] = t
          /\ \A u \in Threads \ {t} : HoldsDir(t) \cap HoldsDir(u) = {}
    /\ \A t \in Threads :
          (Done(t) /\ ~faulted[t] /\ call[t].fn \in {"serialize", "load"}) => AloneOutcomeOk(t)

C7_Witness ==
    \E t, u \in Threads :
        /\ t # u
        /\ At(t, "serialize", "read")
        /\ At(u, "load", "native") /\ Len(stack[u]) = 2
        /\ Top(u).arg.path = TmpPath(stack[u][1].d)
        /\ Cardinality(dirs) = 2

C9_PassThrough ==
    \A t \in Threads :
        /\ Count(log[t], "native_load") <= 1
        /\ Count(log[t], "native_save") <= 1
        /\ nativeErr[t].kind # "none" =>
              /\ ret[t] = nativeErr[t]
              /\ ret[t].kind = "exc" /\ ret[t].origin = "native"
              /\ log[t][Len(log[t])] \in {"native_load", "native_save", "rmtree"}
              /\ Count(log[t], "native_load") + Count(log[t], "native_save") = 1

C9_Witness ==
    \E t, u \in Threads :
        /\ Done(t) /\ call[t].fn = "load" /\ call[t].arg.kind = "bytes"
        /\ nativeErr[t].kind = "exc" /\ ret[t].exc = "ValueError"
        /\ Done(u) /\ call[u].fn = "serialize"
        /\ nativeErr[u].kind = "exc" /\ ret[u].exc = "ValueError"

\* C10: order of use and removal.  In a call's record of operations nothing
\* is written, saved, read, loaded or adopted after the directory is removed;
\* a load of bytes that ends without an environment failure has written the
\* file, loaded it (and adopted the handle when the file is a model) and
\* then removed the directory; a serialize that ends so has saved, read and
\* then removed.
C10_UseBeforeRemoval ==
    \A t \in Threads :
        /\ \A i, j \in 1..Len(log[t]) :
              (i < j /\ log[t][i] = "rmtree") => log[t][j] = "mkdtemp"
        /\ (Done(t) /\ ~faulted[t] /\ call[t].fn = "load" /\ call[t].arg.kind = "bytes") =>
              log[t] = <<"mkdtemp", "write", "native_load">>
                       \o (IF NativeValid(call[t].arg.data) THEN <<"adopt">> ELSE <<>>)
                       \o <<"rmtree">>
        /\ (Done(t) /\ ~faulted[t] /\ call[t].fn = "serialize") =>
              log[t] = <<"mkdtemp", "native_save", "read", "rmtree">>

C10_Witness ==
    \E t, u \in Threads :
        /\ Done(t) /\ call[t].fn = "load" /\ call[t].arg.kind = "bytes"
        /\ log[t] = <<"mkdtemp", "write", "native_load", "adopt", "rmtree">>
        /\ Done(u) /\ call[u].fn = "serialize"
        /\ log[u] = <<"mkdtemp", "native_save", "read", "rmtree">>

\* The frames of load on t's stack, outermost first.
LoadFrames(t) == {i \in 1..Len(stack[t]) : stack[t][i].fn = "load"}

\* C11: bounded recursion of load on bytes.  At most two frames of load are
\* ever on a stack.  A nested frame was called by a frame of the bytes
\* branch, holds the str path of the file that frame wrote, finds it existing
\* at its check and so takes the native-load branch: it is never in the bytes
\* branch.  A load of bytes never raises the local FileNotFoundError, and
\* when it ends without an environment failure it has made exactly one nested
\* call (one native load).
C11_BoundedRecursion ==
    \A t \in Threads :
        /\ Cardinality(LoadFrames(t)) <= 2
        /\ \A i \in LoadFrames(t) :
              LET f == stack[t][i] IN
              IF i - 1 \in LoadFrames(t)
              THEN LET outer == stack[t][i - 1] IN
                   /\ outer.arg.kind = "bytes" /\ outer.pc = "exit"
                   /\ f.arg = StrArg(TmpPath(outer.d))
                   /\ f.d = NoDir
                   /\ f.pc \in {"check", "native"}
                   /\ f.pc = "check" =>
                         /\ files[f.arg.path] = File(outer.arg.data)
                         /\ LoadBranch(f.arg) = "native"
              ELSE f.pc \in {"mkdtemp", "write", "recurse", "exit"} => f.arg.kind = "bytes"
        /\ (call[t].fn = "load" /\ call[t].arg.kind = "bytes") =>
              /\ ~(ret[t].kind = "exc" /\ ret[t].origin = "local")
              /\ Count(log[t], "native_load") <= 1
              /\ (Done(t) /\ ~faulted[t]) => Count(log[t], "native_load") = 1

C11_Witness ==
    \E t \in Threads :
        /\ call[t].fn = "load" /\ call[t].arg = BytesArg(<<>>)
        /\ Len(stack[t]) = 2
        /\ At(t, "load", "native")
        /\ stack[t][1].pc = "exit"

====
